---- MODULE Spec2Model ----
(***************************************************************************)
(* A model of src/cache.cpp of Akumuli: Sequence (a shard: an ordered map  *)
(* from (timestamp, param id) to a page offset, plus the temp_ buffer used *)
(* under contention), Bucket (NUMCPU sequences, a baseline and a state     *)
(* counter) and Cache (the sliding window cache_ and the free_list_).      *)
(*                                                                         *)
(* The module holds several specifications over the same variables:       *)
(*   SpecCache   Cache::add_entry_, Cache::clear and Bucket::merge, each   *)
(*               call running alone from start to end;                     *)
(*   SpecConc    several threads inside Cache::add_entry_ at once;         *)
(*   SpecSearch  Sequence::search on every map over a small key set;       *)
(*   SpecShard   several threads inside Sequence::add / Sequence::search   *)
(*               of one sequence.                                          *)
(* A specification leaves the variables of the others at their initial     *)
(* value.                                                                  *)
(***************************************************************************)
EXTENDS Integers, Sequences, FiniteSets, TLC

VARIABLES
    \* ---- Cache
    buckets_,      \* std::deque<Bucket>: bucket id (position) -> Bucket
    cache_,        \* the active window: sequence of bucket ids, front first
    free_list_,    \* the free list: sequence of bucket ids
    baseline_,     \* Cache::baseline_
    nswapped,      \* the caller's counter behind the nswapped pointer
    page,          \* the page: offset -> entry, what read_entry resolves
    last,          \* the last finished call: its arguments and results
    crashed,       \* TRUE once a call ran into undefined behaviour
    \* ---- threads inside Cache::add_entry_
    ct,            \* thread -> its position and locals
    lists_mutex_,  \* 0 or the thread holding Cache::lists_mutex_
    wlog,          \* deliveries: <<thread, bucket, state seen at delivery>>
    \* ---- one Sequence
    data_,         \* Sequence::data_: key -> offset
    temp_,         \* Sequence::temp_: sequence of <<ts, param, offset>>
    obj_mtx_,      \* 0 or the thread holding Sequence::obj_mtx_
    tmp_mtx_,      \* 0 or the thread holding Sequence::tmp_mtx_
    th,            \* thread -> its position and locals
    hist           \* history of the calls on the sequence

cacheVars == <<buckets_, cache_, free_list_, baseline_, nswapped, page, last, crashed>>
concVars  == <<ct, lists_mutex_, wlog>>
shardVars == <<data_, temp_, obj_mtx_, tmp_mtx_, th, hist>>
vars      == <<cacheVars, concVars, shardVars>>

----------------------------------------------------------------------------
\* Configuration (akumuli_def.h) and bounds

\* maximum number of live buckets of the window
AKU_LIMITS_MAX_CACHES == 3
\* number of buckets the constructor prepopulates
AKU_CACHE_POPULATION == 4
\* std::thread::hardware_concurrency(): sequences per bucket
NUMCPU == 2
\* Cache::shift_ = log2(ttl), here ttl = 2
shift_ == 1

\* largest timestamp written to the cache in SpecCache
MaxTs == 9
\* number of add_entry_ calls in SpecCache
MaxEntries == 3
\* the param ids written and queried
ParamIds == {1, 2}
\* the param id the Cache-level specifications write
ParamX == CHOOSE p \in ParamIds : \A r \in ParamIds : p <= r

\* the timestamps written in SpecCache
TimeStamps == 0..MaxTs

----------------------------------------------------------------------------
\* std::map<std::tuple<TimeStamp, ParamId>, EntryOffset>

EmptyMap == [k \in {} |-> 0]

\* operator< of std::tuple<TimeStamp, ParamId>
KeyLess(a, b) == a[1] < b[1] \/ (a[1] = b[1] /\ a[2] < b[2])

MinKey(S) == CHOOSE k \in S : \A j \in S : j = k \/ KeyLess(k, j)

MaxKey(S) == CHOOSE k \in S : \A j \in S : j = k \/ KeyLess(j, k)

RECURSIVE SortKeys(_)
\* the keys of S in the order the map's iterator visits them
SortKeys(S) == IF S = {} THEN << >>
               ELSE LET m == MinKey(S) IN <<m>> \o SortKeys(S \ {m})

\* std::map::insert: an already present key keeps its value
MapInsert(m, key, offset) ==
    IF key \in DOMAIN m THEN m
    ELSE [x \in DOMAIN m \cup {key} |-> IF x = key THEN offset ELSE m[x]]

RECURSIVE DrainTemp(_, _)
\* the loop over temp_ of Sequence::add; temp_ is left as it is
DrainTemp(m, tmp) ==
    IF tmp = << >> THEN m
    ELSE DrainTemp(MapInsert(m, <<tmp[1][1], tmp[1][2]>>, tmp[1][3]), Tail(tmp))

\* Sequence::add when both try_lock calls succeed
Sequence_add(s, ts, param, offset) ==
    [s EXCEPT !.data_ = MapInsert(DrainTemp(s.data_, s.temp_), <<ts, param>>, offset)]

\* data_.end(); no key of the model is negative
END == <<-1, -1>>

\* (ParamId)~0, all ones, cut to a width TLC's integers hold: no param id is above it
ParamIdMax == 2 ^ 30 - 1

\* data_.begin()
MapBegin(data) == IF DOMAIN data = {} THEN END ELSE MinKey(DOMAIN data)

\* data_.upper_bound(key): the first element whose key is greater than key
UpperBound(data, key) ==
    LET S == {k \in DOMAIN data : KeyLess(key, k)}
    IN  IF S = {} THEN END ELSE MinKey(S)

\* data_.lower_bound(key): the first element whose key is not less than key
LowerBound(data, key) ==
    LET S == {k \in DOMAIN data : ~KeyLess(k, key)}
    IN  IF S = {} THEN END ELSE MinKey(S)

\* citer-- on an iterator that is not begin()
MapPrev(data, citer) ==
    IF citer = END THEN MaxKey(DOMAIN data)
    ELSE MaxKey({k \in DOMAIN data : KeyLess(k, citer)})

\* citer++ on an iterator that is not end()
MapNext(data, citer) ==
    LET S == {k \in DOMAIN data : KeyLess(citer, k)}
    IN  IF S = {} THEN END ELSE MinKey(S)

\* line 64-66: the query is refused
SearchBadArg(q) ==
    LET forward == q.direction = "AKU_CURSOR_DIR_FORWARD"
        backward == q.direction = "AKU_CURSOR_DIR_BACKWARD"
    IN  q.upperbound < q.lowerbound \/ ~(forward # backward)

\* lines 73-76 and 96-99: where the scan starts
SearchStart(data, q) ==
    IF q.direction = "AKU_CURSOR_DIR_BACKWARD"
    THEN UpperBound(data, <<q.upperbound, ParamIdMax>>)
    ELSE LowerBound(data, <<q.lowerbound, 0>>)

\* line 82: the backward scan stops at this key
BackwardStop(curr_key, lowerbound) == curr_key[1] <= lowerbound

RECURSIVE BackwardScan(_, _, _, _, _)
\* lines 80-92.  When citer is end(), citer->first and citer->second read what
\* lies behind the header node of the map: g is the key and offset found there.
BackwardScan(data, citer, q, g, out) ==
    LET curr_key == IF citer = END THEN g.key ELSE citer
        offset == IF citer = END THEN g.offset ELSE data[citer]
        put == IF curr_key[2] = q.param /\ curr_key[1] <= q.upperbound
               THEN Append(out, <<"put", offset>>) ELSE out
    IN  IF BackwardStop(curr_key, q.lowerbound) THEN out
        ELSE IF citer = MapBegin(data) THEN put
        ELSE BackwardScan(data, MapPrev(data, citer), q, g, put)

\* ForwardStop with the entry at upperbound let through (a closed range)
ForwardStop_inclusive(curr_key, upperbound) == curr_key[1] > upperbound

\* line 105: the forward scan stops at this key
ForwardStop(curr_key, upperbound) == curr_key[1] >= upperbound

RECURSIVE ForwardScan(_, _, _, _)
\* lines 103-112
ForwardScan(data, citer, q, out) ==
    IF citer = END THEN out
    ELSE IF ForwardStop(citer, q.upperbound) THEN out
    ELSE ForwardScan(data, MapNext(data, citer), q,
                     IF citer[2] = q.param THEN Append(out, <<"put", data[citer]>>)
                     ELSE out)

\* lines 79-114: the scan from citer, then cursor->complete
SearchScan(data, citer, q, g) ==
    (IF q.direction = "AKU_CURSOR_DIR_BACKWARD"
     THEN BackwardScan(data, citer, q, g, << >>)
     ELSE ForwardScan(data, citer, q, << >>)) \o << <<"complete">> >>

\* Sequence::search without the return at line 68: the scan follows set_error
Sequence_search_noreturn(data, q, g) ==
    IF SearchBadArg(q)
    THEN << <<"set_error", "AKU_EBAD_ARG">> >> \o SearchScan(data, SearchStart(data, q), q, g)
    ELSE SearchScan(data, SearchStart(data, q), q, g)

\* Sequence::search run alone: the calls the cursor receives
Sequence_search(data, q, g) ==
    IF SearchBadArg(q) THEN << <<"set_error", "AKU_EBAD_ARG">> >>
    ELSE SearchScan(data, SearchStart(data, q), q, g)

----------------------------------------------------------------------------
\* Bucket

NewSequence == [data_ |-> EmptyMap, temp_ |-> << >>]

\* Bucket::Bucket(n, max_size, baseline)
NewBucket(baseline) ==
    [baseline |-> baseline, state |-> 0, rrindex_ |-> 0,
     seq_ |-> [i \in 1..NUMCPU |-> NewSequence]]

\* Bucket::add; cpuix is what aku_getcpu() returned
Bucket_add(b, ts, param, offset, cpuix) ==
    LET index == (cpuix % Len(b.seq_)) + 1     \* seq_ is indexed from 1 here
    IN  [b EXCEPT !.seq_[index] = Sequence_add(b.seq_[index], ts, param, offset)]

\* the offsets of sequence s in iteration order
SeqOffsets(s) ==
    LET ks == SortKeys(DOMAIN s.data_) IN [i \in 1..Len(ks) |-> s.data_[ks[i]]]

\* less_than(lhs, rhs, page): compares what the page holds at the two offsets
less_than(loff, roff, pg) ==
    KeyLess(<<pg[loff].time, pg[loff].param_id>>, <<pg[roff].time, pg[roff].param_id>>)

RECURSIVE MergeScan(_, _, _, _, _, _, _)
\* the for loop of Bucket::merge over i (0-based as in the code); lists[i+1] are
\* the offsets of sequence i, iter[i+1] the position of its iterator.  The
\* result is <<min, next_min, op_cnt, undefined>>.
MergeScan(i, min, next_min, op_cnt, lists, iter, pg) ==
    IF i >= Len(lists) THEN <<min, next_min, op_cnt, FALSE>>
    ELSE IF i = min THEN MergeScan(i + 1, min, next_min, op_cnt, lists, iter, pg)
    ELSE IF iter[i + 1] <= Len(lists[i + 1])
         THEN IF iter[min + 1] > Len(lists[min + 1])
              THEN <<min, next_min, op_cnt, TRUE>>   \* less_than reads *end
              ELSE IF less_than(lists[i + 1][iter[i + 1]], lists[min + 1][iter[min + 1]], pg)
                   THEN MergeScan(i + 1, i, min, op_cnt + 1, lists, iter, pg)
                   ELSE MergeScan(i + 1, min, i, op_cnt + 1, lists, iter, pg)
         ELSE MergeScan(i + 1, min, next_min, op_cnt, lists, iter, pg)

RECURSIVE MergeLoop(_, _, _, _, _)
\* the while(true) loop of Bucket::merge
MergeLoop(next_min, lists, iter, out, pg) ==
    LET r == MergeScan(0, next_min, next_min, 0, lists, iter, pg)
    IN  IF r[4] THEN [status |-> "UNDEFINED", out |-> out]
        ELSE IF r[3] = 0 THEN [status |-> "AKU_SUCCESS", out |-> out]
        ELSE MergeLoop(r[2], lists,
                       [iter EXCEPT ![r[1] + 1] = @ + 1],
                       Append(out, lists[r[1] + 1][iter[r[1] + 1]]), pg)

\* Bucket::merge without the test of state at line 188
Bucket_merge_nostate(b, pg) ==
    IF b.rrindex_ = 0 THEN [status |-> "AKU_SUCCESS", out |-> << >>]
    ELSE LET n == Len(b.seq_)
             lists == [i \in 1..n |-> SeqOffsets(b.seq_[i])]
         IN  IF n > 1
             THEN MergeLoop(0, lists, [i \in 1..n |-> 1], << >>, pg)
             ELSE [status |-> "AKU_SUCCESS", out |-> lists[1]]

\* Bucket::merge: the status returned and the offsets put to the cursor
Bucket_merge(b, pg) ==
    IF b.state = 0 THEN [status |-> "AKU_EBUSY", out |-> << >>]
    ELSE IF b.rrindex_ = 0 THEN [status |-> "AKU_SUCCESS", out |-> << >>]
    ELSE LET n == Len(b.seq_)
             lists == [i \in 1..n |-> SeqOffsets(b.seq_[i])]
         IN  IF n > 1
             THEN MergeLoop(0, lists, [i \in 1..n |-> 1], << >>, pg)
             ELSE [status |-> "AKU_SUCCESS", out |-> lists[1]]

----------------------------------------------------------------------------
\* Cache

\* a list without its first n elements / its first n elements
Drop(s, n) == SubSeq(s, n + 1, Len(s))
Take(s, n) == SubSeq(s, 1, n)

\* mark_last(container, n): state++ on the last n elements of the list,
\* whatever their state; n <= size
mark_last(bks, container, n) ==
    LET ids == {container[i] : i \in (Len(container) - n + 1)..Len(container)}
    IN  [id \in DOMAIN bks |->
            IF id \in ids THEN [bks[id] EXCEPT !.state = @ + 1] ELSE bks[id]]

\* list::splice as both calls of the file use it: the first n elements of
\* `from` are relinked, in order, before the first element of `to`
Splice(to, from, n) ==
    [to |-> Take(from, n) \o to, from |-> Drop(from, n)]

RECURSIVE CreateBuckets(_, _, _, _, _)
\* the loop of allocate_from_free_list creating cnt buckets, baseline + i each
CreateBuckets(bks, fl, baseline, i, cnt) ==
    IF i >= cnt THEN [buckets_ |-> bks, free_list_ |-> fl]
    ELSE CreateBuckets(Append(bks, NewBucket(baseline + i)),
                       Append(fl, Len(bks) + 1), baseline, i + 1, cnt)

\* allocate_from_free_list with the state of every bucket it moves into the
\* window set back to 0
allocate_from_free_list_reset(c, nnew, baseline) ==
    LET n == Len(c.free_list_)
        g == IF n < nnew
             THEN CreateBuckets(c.buckets_, c.free_list_, baseline, 0, nnew - n)
             ELSE [buckets_ |-> c.buckets_, free_list_ |-> c.free_list_]
        s == Splice(c.cache_, g.free_list_, nnew)
        moved == {g.free_list_[i] : i \in 1..nnew}
    IN  [buckets_ |-> [id \in DOMAIN g.buckets_ |->
                          IF id \in moved THEN [g.buckets_[id] EXCEPT !.state = 0]
                          ELSE g.buckets_[id]],
         cache_ |-> s.to, free_list_ |-> s.from]

\* Cache::allocate_from_free_list(nnew, baseline) on c = [buckets_, cache_, free_list_]
allocate_from_free_list(c, nnew, baseline) ==
    LET n == Len(c.free_list_)
        g == IF n < nnew
             THEN CreateBuckets(c.buckets_, c.free_list_, baseline, 0, nnew - n)
             ELSE [buckets_ |-> c.buckets_, free_list_ |-> c.free_list_]
        s == Splice(c.cache_, g.free_list_, nnew)
    IN  [buckets_ |-> g.buckets_, cache_ |-> s.to, free_list_ |-> s.from]

\* the find_if of add_entry_: the position in cache_ of the first live bucket
\* with this baseline, 0 for cache_.end()
FindLive(bks, cache, bucket_index) ==
    LET hits == {i \in 1..Len(cache) :
                    bks[cache[i]].state = 0 /\ bks[cache[i]].baseline = bucket_index}
    IN  IF hits = {} THEN 0 ELSE CHOOSE i \in hits : \A j \in hits : i <= j

\* the number of buckets add_entry_ passes to mark_last when it slides by count
RecycleCount(count, curr_cache_size) ==
    IF count >= AKU_LIMITS_MAX_CACHES THEN AKU_LIMITS_MAX_CACHES
    ELSE LET freeslots == AKU_LIMITS_MAX_CACHES - count
         IN  IF freeslots < curr_cache_size THEN curr_cache_size - freeslots ELSE 0

\* ts.value >> shift_
BucketIndex(ts) == ts \div (2 ^ shift_)

\* the live buckets of the active window
Live == {id \in {cache_[i] : i \in 1..Len(cache_)} : buckets_[id].state = 0}

NoQuery == [lowerbound |-> 0, upperbound |-> 0, param |-> 0, direction |-> "none"]

NoCall == [op |-> "none", ts |-> 0, pid |-> 0, offset |-> 0, bucket_index |-> 0,
           path |-> "none", status |-> "none", target |-> 0, out |-> << >>,
           query |-> NoQuery]

\* Cache::Cache: the population goes to the free list, then the window is allocated
CacheInit ==
    LET g == CreateBuckets(<< >>, << >>, 0, 0, AKU_CACHE_POPULATION)
        a == allocate_from_free_list(
                 [buckets_ |-> g.buckets_, cache_ |-> << >>, free_list_ |-> g.free_list_],
                 AKU_LIMITS_MAX_CACHES, 0)
    IN  /\ buckets_ = a.buckets_
        /\ cache_ = a.cache_
        /\ free_list_ = a.free_list_
        /\ baseline_ = 0
        /\ nswapped = 0
        /\ page = << >>
        /\ last = NoCall
        /\ crashed = FALSE

ConcIdle == /\ ct = << >>
            /\ lists_mutex_ = 0
            /\ wlog = << >>

ShardIdle == /\ data_ = EmptyMap
             /\ temp_ = << >>
             /\ obj_mtx_ = 0
             /\ tmp_mtx_ = 0
             /\ th = << >>
             /\ hist = << >>

\* the end of a call of add_entry_ that ran alone
Return(bks, c, fl, base, nsw, call) ==
    /\ buckets_' = bks
    /\ cache_' = c
    /\ free_list_' = fl
    /\ baseline_' = base
    /\ nswapped' = nsw
    /\ last' = call
    /\ crashed' = FALSE

\* a call that dereferences cache_.front() of an empty list, or lets mark_last
\* step back past the first element: undefined, the run is followed no further
Undefined(call) ==
    /\ crashed' = TRUE
    /\ last' = [call EXCEPT !.status = "UNDEFINED"]
    /\ UNCHANGED <<buckets_, cache_, free_list_, baseline_, nswapped>>

\* Cache::add_entry_(ts, pid, offset, nswapped), the caller having written the
\* entry to the page at `offset`; cpuix is the CPU the call runs on
add_entry_(ts, pid, cpuix) ==
    LET offset == Len(page) + 1
        bucket_index == BucketIndex(ts)
        index == baseline_ - bucket_index
        call == [NoCall EXCEPT !.op = "add", !.ts = ts, !.pid = pid,
                     !.offset = offset, !.bucket_index = bucket_index]
    IN
    /\ ~crashed
    /\ page' = Append(page, [time |-> ts, param_id |-> pid])
    /\ IF index = 0
       THEN \* shortcut for the most frequent case
            IF cache_ = << >> THEN Undefined([call EXCEPT !.path = "fast"])
            ELSE LET target == cache_[1]
                 IN  Return([buckets_ EXCEPT ![target] = Bucket_add(@, ts, pid, offset, cpuix)],
                            cache_, free_list_, baseline_, nswapped,
                            [call EXCEPT !.path = "fast", !.target = target,
                                         !.status = "AKU_WRITE_STATUS_SUCCESS"])
       ELSE IF index > 0
       THEN LET it == FindLive(buckets_, cache_, bucket_index)
            IN  IF it = 0
                THEN Return(buckets_, cache_, free_list_, baseline_, nswapped,
                            [call EXCEPT !.path = "lookup", !.status = "AKU_EOVERFLOW"])
                ELSE Return([buckets_ EXCEPT ![cache_[it]] = Bucket_add(@, ts, pid, offset, cpuix)],
                            cache_, free_list_, baseline_, nswapped,
                            [call EXCEPT !.path = "lookup", !.target = cache_[it],
                                         !.status = "AKU_WRITE_STATUS_SUCCESS"])
       ELSE \* future write: the window slides
            LET count == 0 - index
                recycle_cnt == RecycleCount(count, Len(cache_))
                nnew == IF count >= AKU_LIMITS_MAX_CACHES THEN AKU_LIMITS_MAX_CACHES ELSE count
            IN  IF recycle_cnt > Len(cache_)
                THEN Undefined([call EXCEPT !.path = "slide"])
                ELSE LET marked == mark_last(buckets_, cache_, recycle_cnt)
                         a == allocate_from_free_list(
                                  [buckets_ |-> marked, cache_ |-> cache_, free_list_ |-> free_list_],
                                  nnew, bucket_index - nnew)
                         it == FindLive(a.buckets_, a.cache_, bucket_index)
                     IN  IF it = 0
                         THEN Return(a.buckets_, a.cache_, a.free_list_, bucket_index,
                                     nswapped + recycle_cnt,
                                     [call EXCEPT !.path = "slide", !.status = "AKU_EGENERAL"])
                         ELSE Return([a.buckets_ EXCEPT ![a.cache_[it]] =
                                          Bucket_add(@, ts, pid, offset, cpuix)],
                                     a.cache_, a.free_list_, bucket_index,
                                     nswapped + recycle_cnt,
                                     [call EXCEPT !.path = "slide", !.target = a.cache_[it],
                                                  !.status = "AKU_WRITE_STATUS_SUCCESS"])

\* Cache::add_entry(entry, offset, nswapped)
Add == /\ Len(page) < MaxEntries
       /\ \E ts \in TimeStamps, cpuix \in 0..(NUMCPU - 1) : add_entry_(ts, ParamX, cpuix)
       /\ UNCHANGED <<concVars, shardVars>>

\* Cache::clear: the whole active window is relinked to the front of the free list
Clear ==
    /\ ~crashed
    /\ LET s == Splice(free_list_, cache_, Len(cache_))
       IN  /\ free_list_' = s.to
           /\ cache_' = s.from
    /\ last' = [NoCall EXCEPT !.op = "clear"]
    /\ UNCHANGED <<buckets_, baseline_, nswapped, page, crashed, concVars, shardVars>>

InitCache == CacheInit /\ ConcIdle /\ ShardIdle

NextCache == Add \/ Clear

SpecCache == InitCache /\ [][NextCache]_vars

\* Cache::add_entry calls only, one after the other
NextAdd == Add

SpecAdd == InitCache /\ [][NextAdd]_vars

\* the baselines of the live buckets of the active window
LiveBaselines == {buckets_[id].baseline : id \in Live}

\* a step that is one whole call of add_entry_
AddStep == Len(page') = Len(page) + 1

\* C1: after any sequence of add calls the number of live (state = 0) buckets
\* of the active window is at most AKU_LIMITS_MAX_CACHES.
C1_LiveWindowBounded == Cardinality(Live) <= AKU_LIMITS_MAX_CACHES

\* C2: an add that returned success delivered its triple to a bucket of the
\* active window whose baseline is ts >> shift_, on each of the three paths.
C2_DeliveredToMatchingBucket ==
    (last.op = "add" /\ last.status = "AKU_WRITE_STATUS_SUCCESS") =>
        /\ \E i \in 1..Len(cache_) : cache_[i] = last.target
        /\ \E i \in 1..NUMCPU :
              <<last.ts, last.pid>> \in DOMAIN buckets_[last.target].seq_[i].data_
        /\ buckets_[last.target].baseline = BucketIndex(last.ts)

\* C3: an add whose bucket index is below the baseline of every live bucket
\* (there being one) returns AKU_EOVERFLOW and leaves baseline_, both lists
\* and every bucket (state and contents) as they were.
C3_OverflowLeavesCacheUnchanged ==
    [][(/\ AddStep
        /\ Live # {}
        /\ \A b \in LiveBaselines : BucketIndex(last'.ts) < b)
       => (/\ last'.status = "AKU_EOVERFLOW"
           /\ UNCHANGED <<baseline_, cache_, free_list_, buckets_>>)]_vars

\* C9: the sum of what the adds put into nswapped is the number of buckets
\* whose state went from 0 to nonzero.
C9_SwappedCountsRetired ==
    nswapped = Cardinality({id \in DOMAIN buckets_ : buckets_[id].state # 0})

----------------------------------------------------------------------------
\* One bucket on its own: Bucket::add, the state++ of mark_last, Bucket::merge

\* largest timestamp written to the bucket in SpecBucket
MaxBucketTs == 2
\* number of Bucket::add calls in SpecBucket
MaxBucketEntries == 3
\* largest value of Bucket::state in SpecBucket
MaxState == 2

\* the calls a cursor received: cur->put(caller, offset) for each offset
Puts(offsets) == [i \in 1..Len(offsets) |-> <<"put", offsets[i]>>]

\* Bucket::add(ts, param, offset) on the bucket, the entry being on the page at offset
BucketAdd ==
    /\ Len(page) < MaxBucketEntries
    /\ \E ts \in 0..MaxBucketTs, pid \in ParamIds, cpuix \in 0..(NUMCPU - 1) :
          LET offset == Len(page) + 1
          IN  /\ page' = Append(page, [time |-> ts, param_id |-> pid])
              /\ buckets_' = [buckets_ EXCEPT ![1] = Bucket_add(@, ts, pid, offset, cpuix)]
              /\ last' = [NoCall EXCEPT !.op = "add", !.ts = ts, !.pid = pid,
                              !.offset = offset, !.target = 1,
                              !.status = "AKU_WRITE_STATUS_SUCCESS"]
    /\ UNCHANGED <<cache_, free_list_, baseline_, nswapped, crashed, concVars, shardVars>>

\* mark_last reaching the bucket: i->state++
BucketRetire ==
    /\ buckets_[1].state < MaxState
    /\ buckets_' = mark_last(buckets_, <<1>>, 1)
    /\ last' = [NoCall EXCEPT !.op = "retire", !.target = 1]
    /\ UNCHANGED <<cache_, free_list_, baseline_, nswapped, page, crashed, concVars, shardVars>>

\* Bucket::merge(caller, cur, page)
BucketMerge ==
    /\ LET r == Bucket_merge(buckets_[1], page)
       IN  last' = [NoCall EXCEPT !.op = "merge", !.target = 1,
                                  !.status = r.status, !.out = Puts(r.out)]
    /\ UNCHANGED <<buckets_, cache_, free_list_, baseline_, nswapped, page, crashed,
                   concVars, shardVars>>

InitBucket ==
    /\ buckets_ = <<NewBucket(0)>>
    /\ cache_ = <<1>>
    /\ free_list_ = << >>
    /\ baseline_ = 0
    /\ nswapped = 0
    /\ page = << >>
    /\ last = NoCall
    /\ crashed = FALSE
    /\ ConcIdle
    /\ ShardIdle

NextBucket == BucketAdd \/ BucketRetire \/ BucketMerge

SpecBucket == InitBucket /\ [][NextBucket]_vars

\* the offsets stored in the sequences of bucket b
StoredOffsets(b) ==
    UNION {{b.seq_[i].data_[k] : k \in DOMAIN b.seq_[i].data_} : i \in 1..Len(b.seq_)}

\* the sequences of bucket b that hold entries
UsedSequences(b) == {i \in 1..Len(b.seq_) : DOMAIN b.seq_[i].data_ # {}}

\* the offsets the cursor was given by put, in order
PutOffsets(out) == [i \in 1..Len(out) |-> out[i][2]]

\* C4: merge on a retired bucket with entries in two or more sequences puts
\* every stored offset exactly once, ascending by the (time, param_id) the page
\* holds at the offset, and returns AKU_SUCCESS.
C4_MergeEmitsAllSorted ==
    (/\ last.op = "merge"
     /\ buckets_[1].state # 0
     /\ Cardinality(UsedSequences(buckets_[1])) >= 2)
    => LET offs == PutOffsets(last.out)
       IN  /\ last.status = "AKU_SUCCESS"
           /\ \A i \in 1..Len(last.out) : last.out[i][1] = "put"
           /\ Len(offs) = Cardinality(StoredOffsets(buckets_[1]))
           /\ {offs[i] : i \in 1..Len(offs)} = StoredOffsets(buckets_[1])
           /\ \A i, j \in 1..Len(offs) : i < j => ~less_than(offs[j], offs[i], page)

\* C5: merge on a bucket with state = 0 returns AKU_EBUSY and makes no call on
\* the cursor, whatever the sequences hold.
C5_MergeLiveBusy ==
    (last.op = "merge" /\ buckets_[1].state = 0)
    => (last.status = "AKU_EBUSY" /\ last.out = << >>)

\* C5 witness: merge was refused on a live bucket with entries in two sequences
C5_Witness ==
    /\ last.op = "merge"
    /\ last.status = "AKU_EBUSY"
    /\ buckets_[1].state = 0
    /\ Cardinality(UsedSequences(buckets_[1])) >= 2

----------------------------------------------------------------------------
\* Several threads inside Cache::add_entry_.  A step is one access to the
\* shared state: the read of baseline_, the read of cache_.front(), the store
\* to baseline_, mark_last, allocate_from_free_list, taking lists_mutex_, the
\* find_if that ends with the release of the lock_guard, and target->add.

\* number of threads in SpecConc
ConcThreads == 2
\* largest timestamp written in SpecConc
MaxConcTs == 7
\* number of add_entry_ calls in SpecConc
MaxConcEntries == 2

CThreads == 1..ConcThreads

CIdle == [pc |-> "idle", ts |-> 0, offset |-> 0, bucket_index |-> 0, index |-> 0,
          target |-> 0, status |-> "none"]

\* lines 318-319: bucket_index and index, from an unlocked read of baseline_
CBegin(t) ==
    /\ ct[t].pc = "idle"
    /\ Len(page) < MaxConcEntries
    /\ \E ts \in 0..MaxConcTs :
          LET bucket_index == BucketIndex(ts)
              index == baseline_ - bucket_index
          IN  /\ page' = Append(page, [time |-> ts, param_id |-> ParamX])
              /\ ct' = [ct EXCEPT ![t] =
                            [CIdle EXCEPT !.pc = IF index = 0 THEN "fast"
                                                ELSE IF index > 0 THEN "lookup"
                                                ELSE "slide",
                                          !.ts = ts, !.offset = Len(page) + 1,
                                          !.bucket_index = bucket_index,
                                          !.index = index]]
    /\ UNCHANGED <<buckets_, cache_, free_list_, baseline_, nswapped, last, crashed,
                   lists_mutex_, wlog, shardVars>>

\* line 329: target = &cache_.front(), no lock held
CFast(t) ==
    /\ ct[t].pc = "fast"
    /\ cache_ # << >>
    /\ ct' = [ct EXCEPT ![t].pc = "deliver", ![t].target = cache_[1]]
    /\ UNCHANGED <<cacheVars, lists_mutex_, wlog, shardVars>>

\* lines 332 and 367: std::lock_guard<std::mutex> lock(lists_mutex_)
CLock(t) ==
    /\ ct[t].pc \in {"lookup", "relocate"}
    /\ lists_mutex_ = 0
    /\ lists_mutex_' = t
    /\ ct' = [ct EXCEPT ![t].pc = IF ct[t].pc = "lookup" THEN "lookup_locked"
                                  ELSE "relocate_locked"]
    /\ UNCHANGED <<cacheVars, wlog, shardVars>>

\* lines 333-340 and 368-375: find_if under the lock; the lock_guard goes out
\* of scope before target->add
CFind(t) ==
    /\ ct[t].pc \in {"lookup_locked", "relocate_locked"}
    /\ lists_mutex_ = t
    /\ lists_mutex_' = 0
    /\ LET it == FindLive(buckets_, cache_, ct[t].bucket_index)
       IN  IF it = 0
           THEN /\ ct' = [ct EXCEPT ![t] = CIdle]
                /\ last' = [NoCall EXCEPT !.op = "add", !.ts = ct[t].ts, !.pid = ParamX,
                                !.offset = ct[t].offset,
                                !.bucket_index = ct[t].bucket_index,
                                !.path = IF ct[t].pc = "lookup_locked" THEN "lookup" ELSE "slide",
                                !.status = IF ct[t].pc = "lookup_locked"
                                           THEN "AKU_EOVERFLOW" ELSE "AKU_EGENERAL"]
           ELSE /\ ct' = [ct EXCEPT ![t].pc = "deliver", ![t].target = cache_[it]]
                /\ last' = last
    /\ UNCHANGED <<buckets_, cache_, free_list_, baseline_, nswapped, page, crashed,
                   wlog, shardVars>>

\* lines 345-347: baseline_ = bucket_index, no lock held
CSlideBaseline(t) ==
    /\ ct[t].pc = "slide"
    /\ baseline_' = ct[t].bucket_index
    /\ ct' = [ct EXCEPT ![t].pc = "mark"]
    /\ UNCHANGED <<buckets_, cache_, free_list_, nswapped, page, last, crashed,
                   lists_mutex_, wlog, shardVars>>

\* lines 349-353 and 358-364: mark_last and *nswapped +=, no lock held
CSlideMark(t) ==
    /\ ct[t].pc = "mark"
    /\ LET recycle_cnt == RecycleCount(0 - ct[t].index, Len(cache_))
       IN  /\ recycle_cnt <= Len(cache_)
           /\ buckets_' = mark_last(buckets_, cache_, recycle_cnt)
           /\ nswapped' = nswapped + recycle_cnt
    /\ ct' = [ct EXCEPT ![t].pc = "alloc"]
    /\ UNCHANGED <<cache_, free_list_, baseline_, page, last, crashed,
                   lists_mutex_, wlog, shardVars>>

\* lines 354 and 365: allocate_from_free_list, no lock held; baseline_ is read again
CSlideAlloc(t) ==
    /\ ct[t].pc = "alloc"
    /\ LET count == 0 - ct[t].index
           nnew == IF count >= AKU_LIMITS_MAX_CACHES THEN AKU_LIMITS_MAX_CACHES ELSE count
           a == allocate_from_free_list(
                    [buckets_ |-> buckets_, cache_ |-> cache_, free_list_ |-> free_list_],
                    nnew, baseline_ - nnew)
       IN  /\ buckets_' = a.buckets_
           /\ cache_' = a.cache_
           /\ free_list_' = a.free_list_
    /\ ct' = [ct EXCEPT ![t].pc = "relocate"]
    /\ UNCHANGED <<baseline_, nswapped, page, last, crashed, lists_mutex_, wlog, shardVars>>

\* line 377: target->add(ts, pid, offset); thread t runs on CPU t - 1
CDeliver(t) ==
    /\ ct[t].pc = "deliver"
    /\ buckets_' = [buckets_ EXCEPT ![ct[t].target] =
                        Bucket_add(@, ct[t].ts, ParamX, ct[t].offset, t - 1)]
    /\ wlog' = Append(wlog, <<t, ct[t].target, buckets_[ct[t].target].state>>)
    /\ last' = [NoCall EXCEPT !.op = "add", !.ts = ct[t].ts, !.pid = ParamX,
                    !.offset = ct[t].offset, !.bucket_index = ct[t].bucket_index,
                    !.path = "conc", !.target = ct[t].target,
                    !.status = "AKU_WRITE_STATUS_SUCCESS"]
    /\ ct' = [ct EXCEPT ![t] = CIdle]
    /\ UNCHANGED <<cache_, free_list_, baseline_, nswapped, page, crashed,
                   lists_mutex_, shardVars>>

InitConc ==
    /\ CacheInit
    /\ ct = [t \in CThreads |-> CIdle]
    /\ lists_mutex_ = 0
    /\ wlog = << >>
    /\ ShardIdle

NextConc ==
    \E t \in CThreads :
        \/ CBegin(t)
        \/ CFast(t)
        \/ CLock(t)
        \/ CFind(t)
        \/ CSlideBaseline(t)
        \/ CSlideMark(t)
        \/ CSlideAlloc(t)
        \/ CDeliver(t)

SpecConc == InitConc /\ [][NextConc]_vars

\* C10: with threads adding concurrently, no write is inserted into a bucket
\* whose state is nonzero at the moment of the insert.
C10_NoWriteToRetiredBucket == \A i \in 1..Len(wlog) : wlog[i][3] = 0

----------------------------------------------------------------------------
\* One Sequence, one caller: Sequence::add and Sequence::search run alone

\* largest timestamp of an entry or a query in SpecSearch
MaxSearchTs == 3
\* number of Sequence::add calls in SpecSearch
MaxSearchEntries == 3

\* query.direction: the two constants and a value that is neither
Directions == {"AKU_CURSOR_DIR_FORWARD", "AKU_CURSOR_DIR_BACKWARD", "NEITHER"}

\* what the reads of citer->first and citer->second may find when the scan
\* starts at data_.end() and dereferences it; one value when it does not
Garbage(citer, q, maxts) ==
    IF q.direction = "AKU_CURSOR_DIR_BACKWARD" /\ citer = END
    THEN [key : (0..(maxts + 1)) \X ParamIds, offset : {0}]
    ELSE {[key |-> END, offset |-> 0]}

\* Sequence::add(ts, param, offset), both locks free.  The caller of SpecSearch
\* adds, then searches once: a search changes nothing in the sequence.
SeqAdd ==
    /\ last.op # "search"
    /\ Len(hist) < MaxSearchEntries
    /\ \E ts \in 0..MaxSearchTs, param \in ParamIds :
          LET offset == Len(hist) + 1
              s == Sequence_add([data_ |-> data_, temp_ |-> temp_], ts, param, offset)
          IN  /\ data_' = s.data_
              /\ temp_' = s.temp_
              /\ hist' = Append(hist, <<ts, param, offset>>)
              /\ last' = [NoCall EXCEPT !.op = "add", !.ts = ts, !.pid = param,
                              !.offset = offset, !.status = "AKU_WRITE_STATUS_SUCCESS"]
    /\ UNCHANGED <<buckets_, cache_, free_list_, baseline_, nswapped, page, crashed,
                   concVars, obj_mtx_, tmp_mtx_, th>>

\* Sequence::search(caller, cursor, query)
SeqSearch ==
    /\ last.op # "search"
    /\ \E lb \in 0..MaxSearchTs, ub \in 0..MaxSearchTs, param \in ParamIds,
          dir \in Directions :
          LET q == [lowerbound |-> lb, upperbound |-> ub, param |-> param, direction |-> dir]
          IN  \E g \in Garbage(SearchStart(data_, q), q, MaxSearchTs) :
                 last' = [NoCall EXCEPT !.op = "search", !.query = q,
                                        !.out = Sequence_search(data_, q, g)]
    /\ UNCHANGED <<buckets_, cache_, free_list_, baseline_, nswapped, page, crashed,
                   concVars, data_, temp_, obj_mtx_, tmp_mtx_, th, hist>>

InitSearch ==
    /\ buckets_ = << >>
    /\ cache_ = << >>
    /\ free_list_ = << >>
    /\ baseline_ = 0
    /\ nswapped = 0
    /\ page = << >>
    /\ last = NoCall
    /\ crashed = FALSE
    /\ ConcIdle
    /\ ShardIdle

NextSearch == SeqAdd \/ SeqSearch

SpecSearch == InitSearch /\ [][NextSearch]_vars

\* the offsets of the keys of S, ascending by key
OffsetsAscending(data, S) ==
    LET ks == SortKeys(S) IN [i \in 1..Len(ks) |-> data[ks[i]]]

\* a sequence in reverse
Reverse(s) == [i \in 1..Len(s) |-> s[Len(s) + 1 - i]]

\* the puts among the calls the cursor received, as offsets
PutsOf(out) == PutOffsets(SelectSeq(out, LAMBDA e : e[1] = "put"))

\* C7: a backward search over [lowerbound, upperbound] for a param id puts
\* exactly the offsets of the entries with that param id and
\* lowerbound <= timestamp <= upperbound, in descending key order.
C7_BackwardSearchInclusive ==
    (/\ last.op = "search"
     /\ last.query.direction = "AKU_CURSOR_DIR_BACKWARD"
     /\ last.query.lowerbound <= last.query.upperbound)
    => PutsOf(last.out) =
           Reverse(OffsetsAscending(data_,
               {k \in DOMAIN data_ : /\ k[2] = last.query.param
                                     /\ last.query.lowerbound <= k[1]
                                     /\ k[1] <= last.query.upperbound}))

\* C8: a forward search with lowerbound <= upperbound puts exactly the offsets
\* of the entries with the queried param id and lowerbound <= timestamp <
\* upperbound, in ascending key order; no entry at upperbound is put.
C8_ForwardSearchHalfOpen ==
    (/\ last.op = "search"
     /\ last.query.direction = "AKU_CURSOR_DIR_FORWARD"
     /\ last.query.lowerbound <= last.query.upperbound)
    => PutsOf(last.out) =
           OffsetsAscending(data_,
               {k \in DOMAIN data_ : /\ k[2] = last.query.param
                                     /\ last.query.lowerbound <= k[1]
                                     /\ k[1] < last.query.upperbound})

\* C8 witness: a forward search put two offsets in order and left out an entry
\* of the queried param id whose timestamp is upperbound
C8_Witness ==
    /\ last.op = "search"
    /\ last.query.direction = "AKU_CURSOR_DIR_FORWARD"
    /\ Len(PutsOf(last.out)) = 2
    /\ <<last.query.upperbound, last.query.param>> \in DOMAIN data_

----------------------------------------------------------------------------
\* Several threads inside Sequence::add and Sequence::search of one sequence.
\* A step is one operation on a mutex together with the accesses to data_ and
\* temp_ that follow it up to the next operation on a mutex.

\* number of threads in SpecShard
ShardThreads == 3
\* largest timestamp of an entry in SpecShard
MaxShardTs == 1
\* number of Sequence::add calls in SpecShard
MaxShardAdds == 3
\* number of Sequence::search calls in SpecShard
MaxShardSearches == 2

SThreads == 1..ShardThreads

\* the searches of SpecShard scan forward over every timestamp; SpecSearch
\* runs the other directions and bounds
ShardDirections == {"AKU_CURSOR_DIR_FORWARD"}

SIdle == [pc |-> "idle", op |-> "none", ts |-> 0, param |-> 0, offset |-> 0,
          query |-> NoQuery, citer |-> END, out |-> << >>, since |-> {}]

\* the adds that have started, as positions in hist
Adds == {i \in 1..Len(hist) : hist[i].op = "add"}

\* the searches that have started
Searches == {i \in 1..Len(hist) : hist[i].op = "search"}

\* the call at position i of hist has returned
Finish(i) == [hist EXCEPT ![i].done = TRUE]

\* lines 38-43: the call and lock.try_lock()
SAddBegin(t) ==
    /\ th[t].pc = "idle"
    /\ Cardinality(Adds) < MaxShardAdds
    /\ \E ts \in 0..MaxShardTs :
          LET offset == Len(hist) + 1
              same == {i \in Adds : hist[i].ts = ts /\ hist[i].param = ParamX}
              late == Cardinality(same) = 1 /\ \A i \in same : hist[i].done
          IN  /\ hist' = Append(hist, [op |-> "add", ts |-> ts, param |-> ParamX,
                                       offset |-> offset, done |-> FALSE, late |-> late])
              /\ th' = [th EXCEPT ![t] =
                            [SIdle EXCEPT !.pc = IF obj_mtx_ = 0 THEN "try_tmp" ELSE "lock_tmp",
                                          !.op = "add", !.ts = ts, !.param = ParamX,
                                          !.offset = offset]]
    /\ obj_mtx_' = IF obj_mtx_ = 0 THEN t ELSE obj_mtx_
    /\ UNCHANGED <<cacheVars, concVars, data_, temp_, tmp_mtx_>>

\* line 44: tmp_lock.try_lock()
STryTmp(t) ==
    /\ th[t].pc = "try_tmp"
    /\ th' = [th EXCEPT ![t].pc = IF tmp_mtx_ = 0 THEN "drain" ELSE "insert"]
    /\ tmp_mtx_' = IF tmp_mtx_ = 0 THEN t ELSE tmp_mtx_
    /\ UNCHANGED <<cacheVars, concVars, data_, temp_, obj_mtx_, hist>>

\* lines 45-49: the loop over temp_ and tmp_lock.unlock()
SDrain(t) ==
    /\ th[t].pc = "drain"
    /\ data_' = DrainTemp(data_, temp_)
    /\ tmp_mtx_' = 0
    /\ th' = [th EXCEPT ![t].pc = "insert"]
    /\ UNCHANGED <<cacheVars, concVars, temp_, obj_mtx_, hist>>

\* lines 51 and 56: data_.insert and the return, which unlocks obj_mtx_
SInsert(t) ==
    /\ th[t].pc = "insert"
    /\ data_' = MapInsert(data_, <<th[t].ts, th[t].param>>, th[t].offset)
    /\ obj_mtx_' = 0
    /\ hist' = Finish(th[t].offset)
    /\ th' = [th EXCEPT ![t].pc = "idle"]
    /\ UNCHANGED <<cacheVars, concVars, temp_, tmp_mtx_>>

\* line 53: tmp_lock.lock()
SLockTmp(t) ==
    /\ th[t].pc = "lock_tmp"
    /\ tmp_mtx_ = 0
    /\ tmp_mtx_' = t
    /\ th' = [th EXCEPT ![t].pc = "append"]
    /\ UNCHANGED <<cacheVars, concVars, data_, temp_, obj_mtx_, hist>>

\* lines 54 and 56: temp_.emplace_back and the return, which unlocks tmp_mtx_
SAppend(t) ==
    /\ th[t].pc = "append"
    /\ temp_' = Append(temp_, <<th[t].ts, th[t].param, th[t].offset>>)
    /\ tmp_mtx_' = 0
    /\ hist' = Finish(th[t].offset)
    /\ th' = [th EXCEPT ![t].pc = "idle"]
    /\ UNCHANGED <<cacheVars, concVars, data_, obj_mtx_>>

\* lines 61-77 and 96-100: the test of the query and the bound looked up in
\* data_, no lock held
SSearchBegin(t) ==
    /\ th[t].pc = "idle"
    /\ Cardinality(Searches) < MaxShardSearches
    /\ \E dir \in ShardDirections :
          LET q == [lowerbound |-> 0, upperbound |-> MaxShardTs + 1,
                    param |-> ParamX, direction |-> dir]
              since == {hist[i].offset : i \in {j \in Adds : hist[j].late /\ hist[j].done}}
              n == Len(hist) + 1
          IN  IF SearchBadArg(q)
              THEN /\ th' = [th EXCEPT ![t] =
                                 [SIdle EXCEPT !.op = "search", !.query = q, !.since = since,
                                               !.out = << <<"set_error", "AKU_EBAD_ARG">> >>]]
                   /\ hist' = Append(hist, [op |-> "search", ts |-> 0, param |-> ParamX,
                                            offset |-> n, done |-> TRUE, late |-> FALSE])
              ELSE /\ th' = [th EXCEPT ![t] =
                                 [SIdle EXCEPT !.pc = "search_lock", !.op = "search",
                                               !.query = q, !.since = since, !.offset = n,
                                               !.citer = SearchStart(data_, q)]]
                   /\ hist' = Append(hist, [op |-> "search", ts |-> 0, param |-> ParamX,
                                            offset |-> n, done |-> FALSE, late |-> FALSE])
    /\ UNCHANGED <<cacheVars, concVars, data_, temp_, obj_mtx_, tmp_mtx_>>

\* lines 79 and 102: std::unique_lock<std::mutex> lock(obj_mtx_)
SSearchLock(t) ==
    /\ th[t].pc = "search_lock"
    /\ obj_mtx_ = 0
    /\ obj_mtx_' = t
    /\ th' = [th EXCEPT ![t].pc = "scan"]
    /\ UNCHANGED <<cacheVars, concVars, data_, temp_, tmp_mtx_, hist>>

\* lines 80-92 or 103-112, line 114 and the return, which unlocks obj_mtx_
SScan(t) ==
    /\ th[t].pc = "scan"
    /\ \E g \in Garbage(th[t].citer, th[t].query, MaxShardTs) :
          th' = [th EXCEPT ![t].pc = "idle",
                           ![t].out = SearchScan(data_, th[t].citer, th[t].query, g)]
    /\ obj_mtx_' = 0
    /\ hist' = Finish(th[t].offset)
    /\ UNCHANGED <<cacheVars, concVars, data_, temp_, tmp_mtx_>>

InitShard ==
    /\ buckets_ = << >>
    /\ cache_ = << >>
    /\ free_list_ = << >>
    /\ baseline_ = 0
    /\ nswapped = 0
    /\ page = << >>
    /\ last = NoCall
    /\ crashed = FALSE
    /\ ConcIdle
    /\ data_ = EmptyMap
    /\ temp_ = << >>
    /\ obj_mtx_ = 0
    /\ tmp_mtx_ = 0
    /\ th = [t \in SThreads |-> SIdle]
    /\ hist = << >>

NextShard ==
    \E t \in SThreads :
        \/ SAddBegin(t)
        \/ STryTmp(t)
        \/ SDrain(t)
        \/ SInsert(t)
        \/ SLockTmp(t)
        \/ SAppend(t)
        \/ SSearchBegin(t)
        \/ SSearchLock(t)
        \/ SScan(t)

SpecShard == InitShard /\ [][NextShard]_vars

\* C6: when a key is added a second time, with another offset, after its first
\* add has returned, a search that starts after the second add has returned
\* never puts the offset of the second add, whatever else runs concurrently.
C6_FirstWriterWins ==
    \A t \in SThreads :
        (th[t].op = "search" /\ th[t].pc = "idle")
        => \A i \in 1..Len(th[t].out) :
              th[t].out[i][1] = "put" => th[t].out[i][2] \notin th[t].since

----------------------------------------------------------------------------
\* The active window after add_entry and clear

\* a step that is one whole call of add_entry_ that slid the window
SlideStep == AddStep /\ last'.path = "slide" /\ ~crashed'

\* C12: every bucket a slide moves from the free list into the active window
\* has, when it joins the window, no entry of an earlier occupancy in any of
\* its sequences (at most the entry this very call delivers) and the baseline
\* of the slot it takes, the window being ordered newest first from the new
\* baseline_.
C12_ReusedBucketsClearedAndRebased ==
    [][SlideStep =>
          \A i \in 1..(Len(cache_') - Len(cache_)) :
              /\ buckets_'[cache_'[i]].baseline = baseline_' - (i - 1)
              /\ StoredOffsets(buckets_'[cache_'[i]]) \subseteq {last'.offset}]_vars

\* C13: after construction and after any sequence of completed add calls the
\* active window is not empty and its front bucket has baseline baseline_.
C13_FrontIsBaseline ==
    /\ cache_ # << >>
    /\ buckets_[cache_[1]].baseline = baseline_

\* C14: no two live buckets of the active window have the same baseline.
C14_LiveBaselinesUnique ==
    \A a \in Live, b \in Live : a # b => buckets_[a].baseline # buckets_[b].baseline

\* C15: an add that slides the window by at least AKU_LIMITS_MAX_CACHES leaves
\* every bucket that was live in the window before the call with nonzero state.
C15_BigSlideRetiresAllLive ==
    [][(SlideStep /\ last'.bucket_index - baseline_ >= AKU_LIMITS_MAX_CACHES)
       => \A id \in Live : buckets_'[id].state # 0]_vars

\* C16: add never returns AKU_EGENERAL: after a slide baseline_ is the bucket
\* index of the write and the window holds a live bucket with that baseline.
C16_NeverGeneralFailure ==
    /\ last.op = "add" => last.status # "AKU_EGENERAL"
    /\ (last.op = "add" /\ last.path = "slide" /\ ~crashed) =>
           /\ baseline_ = last.bucket_index
           /\ \E id \in Live : buckets_[id].baseline = last.bucket_index

\* largest bucket index written in SpecWindow
MaxWindowIndex == 5
\* number of add_entry_ calls in SpecWindow
MaxWindowEntries == 5

\* Cache::add_entry with the first timestamp of a bucket index, on CPU 0: what
\* the window does depends on ts >> shift_ only
AddAligned ==
    /\ Len(page) < MaxWindowEntries
    /\ \E i \in 0..MaxWindowIndex : add_entry_(i * (2 ^ shift_), ParamX, 0)
    /\ UNCHANGED <<concVars, shardVars>>

NextWindow == AddAligned \/ Clear

\* add_entry and clear over runs long enough for a slide to take from the
\* free list buckets that clear put there with nonzero state
SpecWindow == InitCache /\ [][NextWindow]_vars

\* C18: the state of a bucket never decreases, whatever add_entry, clear and
\* the reuse from the free list do: a bucket that left state 0 never returns.
C18_StateMonotone ==
    [][\A id \in DOMAIN buckets_ : buckets_'[id].state >= buckets_[id].state]_vars

\* C18 witness: after a clear, a slide has taken from the free list a bucket
\* retired before and spliced it to the front of the window
C18_Witness ==
    /\ last.op = "add"
    /\ last.path = "slide"
    /\ ~crashed
    /\ cache_ # << >>
    /\ buckets_[cache_[1]].state # 0

----------------------------------------------------------------------------
\* The locking of add_entry_, the signals of search, the overflow list temp_

\* C17: every step that changes baseline_, the membership of cache_ or
\* free_list_, the number of buckets or the state of a bucket is taken by a
\* thread that holds lists_mutex_.
C17_StructuralStepsUnderLock ==
    [][(\/ baseline_' # baseline_
        \/ cache_' # cache_
        \/ free_list_' # free_list_
        \/ Len(buckets_') # Len(buckets_)
        \/ \E id \in DOMAIN buckets_ : buckets_'[id].state # buckets_[id].state)
       => \E t \in CThreads : ct'[t] # ct[t] /\ lists_mutex_ = t]_vars

\* the query passes the test of the arguments the specification describes
ValidQuery(q) ==
    /\ q.lowerbound <= q.upperbound
    /\ q.direction \in {"AKU_CURSOR_DIR_FORWARD", "AKU_CURSOR_DIR_BACKWARD"}

\* C19: a search with a valid query calls complete once, as its last call,
\* after puts only (none when nothing matches); a search with an invalid query
\* calls set_error(AKU_EBAD_ARG) once and nothing else.
C19_OneTerminalSignal ==
    last.op = "search" =>
        IF ValidQuery(last.query)
        THEN /\ Len(last.out) >= 1
             /\ last.out[Len(last.out)] = <<"complete">>
             /\ \A i \in 1..(Len(last.out) - 1) : last.out[i][1] = "put"
        ELSE last.out = << <<"set_error", "AKU_EBAD_ARG">> >>

\* C19 witness: a search with upperbound < lowerbound on a sequence that
\* holds an entry of the queried param id
C19_Witness ==
    /\ last.op = "search"
    /\ last.query.upperbound < last.query.lowerbound
    /\ last.query.direction = "AKU_CURSOR_DIR_FORWARD"
    /\ \E k \in DOMAIN data_ : k[2] = last.query.param

\* the steps of thread t inside a call of add or search
ShardStep(t) ==
    \/ STryTmp(t)
    \/ SDrain(t)
    \/ SInsert(t)
    \/ SLockTmp(t)
    \/ SAppend(t)
    \/ SSearchLock(t)
    \/ SScan(t)

\* SpecShard with every thread that is inside a call scheduled fairly; a
\* caller is free never to call again
SpecShardFair ==
    InitShard /\ [][NextShard]_vars /\ \A t \in SThreads : WF_vars(ShardStep(t))

\* the entries of temp_ whose key data_ does not hold
PendingOverflow ==
    {i \in 1..Len(temp_) : <<temp_[i][1], temp_[i][2]>> \notin DOMAIN data_}

\* C11: under fair scheduling an entry appended to temp_ is eventually
\* inserted into data_, also when no add follows the one that appended it.
C11_OverflowEventuallyDrained ==
    (PendingOverflow # {}) ~> (PendingOverflow = {})

\* C20: when an add holding both locks has drained temp_, temp_ is empty.
C20_DrainEmptiesOverflow ==
    [][(\E t \in SThreads : th[t].pc = "drain" /\ th'[t].pc = "insert")
       => temp_' = << >>]_vars

====
